---------------------------- MODULE Spec2Model ----------------------------
(***************************************************************************)
(* Model of src/app.py: the ISO 11649 reference construction               *)
(* (build_kj_base, rf_from_base, prettify_groups4), the SVG annotation     *)
(* (inject_info_both_sides) and the /generate handler.                     *)
(*                                                                         *)
(* A Python str is a sequence of one-character strings.  The text of an    *)
(* SVG node is a sequence of tokens: a printed reference is its            *)
(* characters, a fixed label such as "Payable par" is one token.           *)
(* Coordinates are integers (the code parses them as floats and only adds, *)
(* subtracts and compares them).                                           *)
(***************************************************************************)
EXTENDS Integers, Sequences, FiniteSets, TLC

VARIABLES
    \* --- reference construction (pure functions applied step by step)
    rstage,     \* "input" | "based" | "reffed" | "printed" | "error"
    ident,      \* the identifier given to build_kj_base, or the raw base
    base,       \* result of build_kj_base
    rf,         \* result of rf_from_base
    printed,    \* result of prettify_groups4
    \* --- the stored files /tmp/qr-bill.svg and /tmp/qr-bill.pdf
    svg,        \* [parent -> sequence of child nodes]
    pdf,
    \* --- annotation calls on one document
    ncalls,     \* number of inject_info_both_sides calls that returned
    prev,       \* the stored document before the last call
    prevprev,   \* the stored document before the call before that
    lastLines,  \* the lines given to the last call
    prevLines,  \* the lines given to the call before
    lastWrote,  \* whether the last call executed tree.write
    \* --- concurrent /generate requests
    pc, payload, reqRef, tree, drawing, response

vars == <<rstage, ident, base, rf, printed, svg, pdf, ncalls, prev, prevprev,
          lastLines, prevLines, lastWrote,
          pc, payload, reqRef, tree, drawing, response>>

refVars == <<rstage, ident, base, rf, printed>>
fileVars == <<svg, pdf>>
callVars == <<ncalls, prev, prevprev, lastLines, prevLines, lastWrote>>
genVars == <<pc, payload, reqRef, tree, drawing, response>>

-----------------------------------------------------------------------------
(* Characters *)

DigitChars == <<"0","1","2","3","4","5","6","7","8","9">>
UpperChars == <<"A","B","C","D","E","F","G","H","I","J","K","L","M",
                "N","O","P","Q","R","S","T","U","V","W","X","Y","Z">>
LowerChars == <<"a","b","c","d","e","f","g","h","i","j","k","l","m",
                "n","o","p","q","r","s","t","u","v","w","x","y","z">>
\* A decimal digit outside ASCII (ARABIC-INDIC DIGIT THREE): Python's \d and
\* \D are Unicode-aware for str patterns, [0-9] is not.
UnicodeDigit == "U+0663"

Range(s) == {s[i] : i \in 1..Len(s)}
IndexOf(s, ch) == CHOOSE i \in 1..Len(s) : s[i] = ch

IsAsciiDigit(ch) == ch \in Range(DigitChars)
IsUpper(ch) == ch \in Range(UpperChars)
IsLower(ch) == ch \in Range(LowerChars)
\* re's \d on a str pattern
IsDecimal(ch) == IsAsciiDigit(ch) \/ ch = UnicodeDigit

\* str.upper(), one character at a time
UpperCh(ch) == IF IsLower(ch) THEN UpperChars[IndexOf(LowerChars, ch)] ELSE ch
upper(s) == [i \in 1..Len(s) |-> UpperCh(s[i])]

\* str(n) for n >= 0
RECURSIVE DecimalOf(_)
DecimalOf(n) ==
    IF n < 10 THEN <<DigitChars[n + 1]>>
    ELSE DecimalOf(n \div 10) \o <<DigitChars[(n % 10) + 1]>>

\* f"{n:0{w}d}": sign first, then zeros up to the width, never truncated
RECURSIVE ZeroPad(_, _)
ZeroPad(s, w) == IF Len(s) >= w THEN s ELSE ZeroPad(<<"0">> \o s, w)

FormatZeroPadded(n, w) ==
    IF n < 0 THEN <<"-">> \o ZeroPad(DecimalOf(0 - n), w - 1)
    ELSE ZeroPad(DecimalOf(n), w)

-----------------------------------------------------------------------------
(* Utils ISO11649 *)

\* s.replace(" ", "") then " ".join(s[i:i+4] for i in range(0, len(s), 4))
RECURSIVE JoinGroups4(_)
JoinGroups4(s) ==
    IF Len(s) <= 4 THEN s
    ELSE SubSeq(s, 1, 4) \o <<" ">> \o JoinGroups4(SubSeq(s, 5, Len(s)))

NotSpace(ch) == ch # " "

\* variant: the first group taken 5 characters long
prettify_groups4_mut_step(s) ==
    LET t == SelectSeq(s, NotSpace)
    IN  IF Len(t) <= 5 THEN t
        ELSE SubSeq(t, 1, 5) \o <<" ">> \o JoinGroups4(SubSeq(t, 6, Len(t)))

prettify_groups4(s) == JoinGroups4(SelectSeq(s, NotSpace))

\* digits pass, A..Z become str(ord(ch) - 55), anything else is dropped
RECURSIVE alnum_to_digits(_)
alnum_to_digits(s) ==
    IF s = <<>> THEN <<>>
    ELSE LET ch == Head(s)
             out == IF IsDecimal(ch) THEN <<ch>>
                    ELSE IF IsUpper(ch) THEN DecimalOf(IndexOf(UpperChars, ch) + 9)
                    ELSE <<>>
         IN  out \o alnum_to_digits(Tail(s))

\* ord(ch) - 48 of a character that str.isdigit() accepts
OrdMinus48(ch) == IF ch = UnicodeDigit THEN 1587 ELSE IndexOf(DigitChars, ch) - 1

\* rem = 0; for ch in num: rem = (rem * 10 + ord(ch) - 48) % 97
RECURSIVE Mod97From(_, _)
Mod97From(rem, num) ==
    IF num = <<>> THEN rem
    ELSE Mod97From((rem * 10 + OrdMinus48(Head(num))) % 97, Tail(num))

IsAlnumUpper(ch) == IsAsciiDigit(ch) \/ IsUpper(ch)

\* re.sub(r"[^0-9A-Z]", "", (s or "").upper())
clean_alnum_upper(s) == SelectSeq(upper(s), IsAlnumUpper)

Ok(v) == [ok |-> TRUE, val |-> v]
Raise == [ok |-> FALSE, val |-> <<>>]

MaxBaseChars == 21

\* variant: check = 97 - rem
rf_from_base_mut_check(b) ==
    LET base_compact == SelectSeq(upper(b), IsAlnumUpper)
    IN  IF base_compact = <<>> THEN Raise
        ELSE IF Len(base_compact) > MaxBaseChars THEN Raise
        ELSE LET num == alnum_to_digits(base_compact \o <<"R","F","0","0">>)
                 rem == Mod97From(0, num)
                 check == 97 - rem
             IN  Ok(<<"R","F">> \o FormatZeroPadded(check, 2) \o base_compact)

rf_from_base(b) ==
    LET base_compact == SelectSeq(upper(b), IsAlnumUpper)
    IN  IF base_compact = <<>> THEN Raise
        ELSE IF Len(base_compact) > MaxBaseChars THEN Raise
        ELSE LET num == alnum_to_digits(base_compact \o <<"R","F","0","0">>)
                 rem == Mod97From(0, num)
                 check == 98 - rem
             IN  Ok(<<"R","F">> \o FormatZeroPadded(check, 2) \o base_compact)

StoreCodeDigits == 4
MaxInvoiceDigits == 5

\* re.sub(r"\D", "", str(x or ""))
StripNonDigits(s) == SelectSeq(s, IsDecimal)

\* variant: a 5-digit invoice number rejected (>= for >)
build_kj_base_mut_len(company_code, invoice_no, year, mt_prefix, client_code) ==
    LET cc == StripNonDigits(company_code)
        inv == StripNonDigits(invoice_no)
    IN  IF Len(cc) # StoreCodeDigits THEN Raise
        ELSE IF inv = <<>> THEN Raise
        ELSE IF Len(inv) >= MaxInvoiceDigits THEN Raise
        ELSE LET b == clean_alnum_upper(
                          clean_alnum_upper(mt_prefix) \o FormatZeroPadded(year, 4)
                          \o clean_alnum_upper(client_code) \o cc \o inv)
             IN  IF Len(b) > MaxBaseChars THEN Raise ELSE Ok(b)

\* year is already resolved (date.today().year when the caller gave None)
build_kj_base(company_code, invoice_no, year, mt_prefix, client_code) ==
    LET cc == StripNonDigits(company_code)
        inv == StripNonDigits(invoice_no)
    IN  IF Len(cc) # StoreCodeDigits THEN Raise
        ELSE IF inv = <<>> THEN Raise
        ELSE IF Len(inv) > MaxInvoiceDigits THEN Raise
        ELSE LET b == clean_alnum_upper(
                          clean_alnum_upper(mt_prefix) \o FormatZeroPadded(year, 4)
                          \o clean_alnum_upper(client_code) \o cc \o inv)
             IN  IF Len(b) > MaxBaseChars THEN Raise ELSE Ok(b)

-----------------------------------------------------------------------------
(* Reference construction: inputs and steps *)

MaxInvoiceLen == 6
MaxRawLen == 4

SeqsUpTo(S, n) == UNION {[1..k -> S] : k \in 0..n}

MT00 == <<"M","T","0","0">>
KJ00 == <<"K","J","0","0">>

CompanyCodes ==
    { <<"0","9","6","0">>, <<"0","9","-","6","0">>, <<"0","9","6">>,
      <<"0","9","6","0","1">>, <<>>, <<"0","9","6",UnicodeDigit>> }

InvoiceNos ==
    SeqsUpTo({"0", "7", "/"}, MaxInvoiceLen)
        \cup { <<"1","9","2","9">>, <<"9","9","9","9","9">>, <<"0",UnicodeDigit>> }

\* year: given |-> FALSE is the payload's None
Years ==
    { [given |-> FALSE, v |-> 0] }
        \cup { [given |-> TRUE, v |-> y] : y \in {0, 7, 2026, 9999, 12345, 0 - 5} }

\* date.today().year
TodayYears == {2026, 2027}

Tags ==
    { [mt_prefix |-> MT00, client_code |-> KJ00],
      [mt_prefix |-> <<"m","t","-","0","0">>, client_code |-> <<"K","J","0","0","X">>] }

Identifiers ==
    { [mode |-> "ident", company_code |-> c, invoice_no |-> i, year |-> y,
       mt_prefix |-> t.mt_prefix, client_code |-> t.client_code]
        : c \in CompanyCodes, i \in InvoiceNos, y \in Years, t \in Tags }

NoIdentifier ==
    [mode |-> "raw", company_code |-> <<>>, invoice_no |-> <<>>,
     year |-> [given |-> TRUE, v |-> 0], mt_prefix |-> <<>>, client_code |-> <<>>]

Pad18 == <<"M","T","0","0","2","0","2","6","K","J","0","0","0","9","6","0","1","9">>

RawBases ==
    { pad \o t : pad \in {<<>>, Pad18},
                 t \in SeqsUpTo({"0", "7", "A", "Z", "z", "-"}, MaxRawLen) }

InitRef ==
    /\ printed = <<>>
    /\ rf = Raise
    /\ \/ /\ rstage = "input"
          /\ ident \in Identifiers
          /\ base = Raise
       \/ /\ rstage = "based"
          /\ ident = NoIdentifier
          /\ base \in {Ok(b) : b \in RawBases}

\* generate, lines 298-305
BuildBase ==
    /\ rstage = "input"
    /\ \E y \in (IF ident.year.given THEN {ident.year.v} ELSE TodayYears) :
           LET r == build_kj_base(ident.company_code, ident.invoice_no, y,
                                  ident.mt_prefix, ident.client_code)
           IN  /\ base' = r
               /\ rstage' = IF r.ok THEN "based" ELSE "error"
    /\ UNCHANGED <<ident, rf, printed, fileVars, callVars, genVars>>

\* generate, line 306
ComputeRef ==
    /\ rstage = "based"
    /\ rf' = rf_from_base(base.val)
    /\ rstage' = IF rf'.ok THEN "reffed" ELSE "error"
    /\ UNCHANGED <<ident, base, printed, fileVars, callVars, genVars>>

\* generate, line 343
Prettify ==
    /\ rstage = "reffed"
    /\ printed' = prettify_groups4(rf.val)
    /\ rstage' = "printed"
    /\ UNCHANGED <<ident, base, rf, fileVars, callVars, genVars>>

-----------------------------------------------------------------------------
(* Injection "Informations complementaires" *)

OFFSET_BELOW_PAYEE_BLOCK == 22
FALLBACK_CLEARANCE == 20
FONT_SIZE == 10
LINE_GAP == 12
SHIFT_X_LEFT == 0
SHIFT_X_RIGHT == 0
\* literals of inject_info_both_sides
X_TOLERANCE == 60
PAYER_SPAN == 240
MONNAIE_MARGIN == 6
FALLBACK_DY == 12

HeaderText == <<"Informations complémentaires">>
ReferenceLabel == <<"Référence">>
PayableParLabel == <<"Payable par">>
MonnaieLabel == <<"Monnaie">>
EXCLUDE ==
    { <<"Monnaie">>, <<"Montant">>, <<"Compte / Payable à">>, <<"Référence">>,
      <<"Payable par">>, <<"Point de dépôt">>, <<"Récépissé">>, <<"Section paiement">> }

Abs(n) == IF n < 0 THEN 0 - n ELSE n
Min(a, b) == IF a <= b THEN a ELSE b
Max(a, b) == IF a >= b THEN a ELSE b

\* the <g> elements holding the text nodes, in document order
Parents == 1..2

\* str.strip() on a node's text: leading and trailing blanks go
RECURSIVE LStrip(_)
LStrip(t) == IF t # <<>> /\ Head(t) = " " THEN LStrip(Tail(t)) ELSE t
RECURSIVE RStrip(_)
RStrip(t) ==
    IF t # <<>> /\ t[Len(t)] = " " THEN RStrip(SubSeq(t, 1, Len(t) - 1)) ELSE t
strip(t) == RStrip(LStrip(t))

\* n.tag.endswith("text")
IsTextNode(n) == n.tag = "text"
\* "".join(n.itertext()).strip()
node_text(n) == strip(n.text)

InWindow(n, x_ref) == Abs(n.x - x_ref) <= X_TOLERANCE

None == [some |-> FALSE, v |-> 0]
Some(v) == [some |-> TRUE, v |-> v]

\* one pass of "for node in list(parent)" collecting (x, y + dy, parent)
RECURSIVE RefsIn(_, _, _, _)
RefsIn(children, p, key, dy) ==
    IF children = <<>> THEN <<>>
    ELSE LET n == Head(children)
         IN  (IF IsTextNode(n) /\ node_text(n) = key
              THEN <<[x |-> n.x, y |-> n.y + dy, p |-> p]>> ELSE <<>>)
             \o RefsIn(Tail(children), p, key, dy)

RECURSIVE ScanFrom(_, _, _, _)
ScanFrom(p, t, key, dy) ==
    IF p \notin Parents THEN <<>>
    ELSE RefsIn(t[p], p, key, dy) \o ScanFrom(p + 1, t, key, dy)

\* variant: the fallback scan looks for the wrong label
find_refs_mut_label(t, printed_ref) ==
    LET direct == ScanFrom(1, t, printed_ref, 0)
    IN  IF direct # <<>> THEN direct ELSE ScanFrom(1, t, PayableParLabel, FALLBACK_DY)

\* the anchors: the printed reference, else the "Référence" label moved down
find_refs(t, printed_ref) ==
    LET direct == ScanFrom(1, t, printed_ref, 0)
    IN  IF direct # <<>> THEN direct ELSE ScanFrom(1, t, ReferenceLabel, FALLBACK_DY)

\* min(refs, key=x) and max(refs, key=x): the first of the extreme ones
LeftOf(refs) ==
    refs[CHOOSE i \in 1..Len(refs) :
            /\ \A j \in 1..Len(refs) : refs[j].x >= refs[i].x
            /\ \A j \in 1..(i - 1) : refs[j].x > refs[i].x]
RightOf(refs) ==
    refs[CHOOSE i \in 1..Len(refs) :
            /\ \A j \in 1..Len(refs) : refs[j].x <= refs[i].x
            /\ \A j \in 1..(i - 1) : refs[j].x < refs[i].x]

sides_of(refs) ==
    LET left == LeftOf(refs)
        right == RightOf(refs)
    IN  IF left = right THEN << [ref |-> right, shift |-> SHIFT_X_RIGHT] >>
        ELSE << [ref |-> left, shift |-> SHIFT_X_LEFT],
                [ref |-> right, shift |-> SHIFT_X_RIGHT] >>

\* 1 + sum(1 for s in lines[:3] if s)
n_lines(lines) ==
    1 + Cardinality({i \in 1..Min(3, Len(lines)) : lines[i] # <<>>})

block_h(lines) == FONT_SIZE + (n_lines(lines) - 1) * LINE_GAP

\* first node of the list that is a text node `label` inside the window
RECURSIVE FirstLabelY(_, _, _)
FirstLabelY(children, label, x_ref) ==
    IF children = <<>> THEN None
    ELSE LET n == Head(children)
         IN  IF IsTextNode(n) /\ node_text(n) = label /\ InWindow(n, x_ref)
             THEN Some(n.y)
             ELSE FirstLabelY(Tail(children), label, x_ref)

\* y_bottom = max(y_bottom or y, y) over the payer's lines
RECURSIVE BottomFrom(_, _, _, _)
BottomFrom(yb, children, y_label, x_ref) ==
    IF children = <<>> THEN yb
    ELSE LET n == Head(children)
             txt == node_text(n)
             counted == /\ IsTextNode(n)
                        /\ txt # <<>>
                        /\ txt \notin EXCLUDE
                        /\ InWindow(n, x_ref)
                        /\ y_label < n.y
                        /\ n.y < y_label + PAYER_SPAN
             nb == IF counted
                   THEN Some(Max(IF yb.some /\ yb.v # 0 THEN yb.v ELSE n.y, n.y))
                   ELSE yb
         IN  BottomFrom(nb, Tail(children), y_label, x_ref)

new_text(x, ypos, txt, bold, who) ==
    [tag |-> "text", text |-> txt, x |-> x, y |-> ypos, bold |-> bold, by |-> who]

\* (lines + ["", ""])[:3]
Slots(lines) == SubSeq(lines \o << <<>>, <<>> >>, 1, 3)

RECURSIVE ContentFrom(_, _, _, _, _)
ContentFrom(i, slots, x, start_y, who) ==
    IF i > Len(slots) THEN <<>>
    ELSE (IF slots[i] # <<>>
          THEN <<new_text(x, start_y + i * LINE_GAP, slots[i], FALSE, who)>>
          ELSE <<>>)
         \o ContentFrom(i + 1, slots, x, start_y, who)

\* the children of `parent` after inject_for_side
inject_for_side(children, x_ref, y_ref, x_shift, lines, who) ==
    LET Kept(n) ==
            ~ ( /\ IsTextNode(n)
                /\ node_text(n) # <<>>
                /\ (node_text(n) = HeaderText \/ node_text(n) \in Range(lines))
                /\ InWindow(n, x_ref) )
        kept == SelectSeq(children, Kept)
        y_label == FirstLabelY(kept, PayableParLabel, x_ref)
        y_bottom == IF y_label.some
                    THEN BottomFrom(None, kept, y_label.v, x_ref)
                    ELSE None
        base_start == IF y_bottom.some
                      THEN y_bottom.v + OFFSET_BELOW_PAYEE_BLOCK
                      ELSE y_ref + FALLBACK_CLEARANCE
        y_monnaie == FirstLabelY(kept, MonnaieLabel, x_ref)
        start_y == IF y_monnaie.some /\ y_monnaie.v # 0
                   THEN Min(base_start, (y_monnaie.v - MONNAIE_MARGIN) - block_h(lines))
                   ELSE base_start
    IN  kept
        \o <<new_text(x_ref + x_shift, start_y, HeaderText, TRUE, who)>>
        \o ContentFrom(1, Slots(lines), x_ref + x_shift, start_y, who)

\* "for _, (x_ref, y_ref, parent), shift in sides: inject_for_side(...)"
RECURSIVE InjectSides(_, _, _, _, _)
InjectSides(i, sides, t, lines, who) ==
    IF i > Len(sides) THEN t
    ELSE LET sd == sides[i]
             t1 == [t EXCEPT ![sd.ref.p] =
                        inject_for_side(t[sd.ref.p], sd.ref.x, sd.ref.y,
                                        sd.shift, lines, who)]
         IN  InjectSides(i + 1, sides, t1, lines, who)

\* not lines or not any(lines)
NothingToPrint(lines) == \A i \in 1..Len(lines) : lines[i] = <<>>

\* the parsed tree after the call, and whether tree.write ran
inject_info_both_sides(t, printed_ref, lines, who) ==
    IF NothingToPrint(lines) THEN [doc |-> t, wrote |-> FALSE]
    ELSE LET refs == find_refs(t, printed_ref)
         IN  IF refs = <<>> THEN [doc |-> t, wrote |-> FALSE]
             ELSE [doc |-> InjectSides(1, sides_of(refs), t, lines, who),
                   wrote |-> TRUE]

-----------------------------------------------------------------------------
(* The slip generator (qrbill): the reference once per panel, the fixed     *)
(* labels, the payer's address under "Payable par".                         *)

gen(tag, txt, x, y) ==
    [tag |-> tag, text |-> txt, x |-> x, y |-> y, bold |-> FALSE, by |-> 0]

DebtorName == <<"King Jouet SA">>
DebtorCity == <<"1964 Conthey">>

\* one panel at column xp.  o.anchor: "both" | "right" | "label" | "none";
\* o.payer: "none" | "label" | "block"; o.monnaie: "none" | "far" | "near" | "value"
Panel(xp, key, o, isRight) ==
    << gen("rect", <<>>, xp, 0) >>
    \o << gen("text", IF isRight THEN <<"Section paiement">> ELSE <<"Récépissé">>, xp, 20) >>
    \o (IF o.anchor # "none" THEN << gen("text", ReferenceLabel, xp, 80) >> ELSE <<>>)
    \o (IF o.anchor = "both" \/ (o.anchor = "right" /\ isRight)
        THEN << gen("text", key, xp, 92) >> ELSE <<>>)
    \o (IF o.payer # "none" THEN << gen("text", PayableParLabel, xp, 120) >> ELSE <<>>)
    \o (IF o.payer = "block"
        THEN << gen("text", DebtorName, xp, 132), gen("text", DebtorCity, xp, 144) >>
        ELSE <<>>)
    \o (IF o.monnaie \in {"far", "value"}
        THEN << gen("text", MonnaieLabel, xp, 300), gen("text", <<"Montant">>, xp + 70, 300) >>
        ELSE <<>>)
    \o (IF o.monnaie = "value"
        THEN << gen("text", <<"CHF">>, xp, 312), gen("text", <<"162.15">>, xp + 70, 312) >>
        ELSE <<>>)
    \o (IF o.monnaie = "near"
        THEN << gen("text", MonnaieLabel, xp, 200), gen("text", <<"Montant">>, xp + 70, 200) >>
        ELSE <<>>)

\* bill.as_svg: both panels in one group, or one group per panel
as_svg(key, o) ==
    IF o.oneGroup
    THEN [p \in Parents |->
            IF p = 1 THEN Panel(50, key, o, FALSE) \o Panel(400, key, o, TRUE) ELSE <<>>]
    ELSE [p \in Parents |->
            IF p = 1 THEN Panel(50, key, o, FALSE) ELSE Panel(400, key, o, TRUE)]

-----------------------------------------------------------------------------
(* Annotation calls on one generated slip *)

MaxCalls == 2

\* RF56 MT00 2026 KJ00 0960 1929
PrintedRef ==
    prettify_groups4(
        rf_from_base(
            build_kj_base(<<"0","9","6","0">>, <<"1","9","2","9">>, 2026, MT00, KJ00).val
        ).val)

SlipOptions ==
    { [anchor |-> "both", payer |-> py, monnaie |-> m, oneGroup |-> g]
        : py \in {"none", "label", "block"},
          m \in {"none", "far", "near", "value"},
          g \in BOOLEAN }
    \cup
    { [anchor |-> a, payer |-> "block", monnaie |-> "far", oneGroup |-> g]
        : a \in {"right", "label", "none"}, g \in BOOLEAN }

InfoCompany == <<"KING JOUET">>
InfoLine == <<"1227 Carouge GE">>

\* [info_company, info_line1, info_line2], each already stripped by generate
LineChoices ==
    [1..3 -> {<<>>, InfoCompany}]
    \cup { << InfoLine, <<>>, <<>> >>,
           << InfoCompany, InfoLine, <<>> >>,
           << DebtorName, <<>>, <<>> >>,
           << PrintedRef, <<>>, <<>> >>,
           << InfoCompany, ReferenceLabel, <<>> >> }

InitInject ==
    /\ \E o \in SlipOptions : svg = as_svg(PrintedRef, o)
    /\ prev = svg
    /\ prevprev = svg
    /\ ncalls = 0
    /\ lastLines = <<>>
    /\ prevLines = <<>>
    /\ lastWrote = FALSE
    /\ pdf = <<>>

\* one call inject_info_both_sides(svg_path, printed_ref, lines): ET.parse,
\* the injection, tree.write
Inject ==
    /\ ncalls < MaxCalls
    /\ \E lines \in LineChoices :
           LET r == inject_info_both_sides(svg, PrintedRef, lines, ncalls + 1)
           IN  /\ svg' = (IF r.wrote THEN r.doc ELSE svg)
               /\ lastWrote' = r.wrote
               /\ lastLines' = lines
    /\ prevLines' = lastLines
    /\ prev' = svg
    /\ prevprev' = prev
    /\ ncalls' = ncalls + 1
    /\ UNCHANGED <<pdf, refVars, genVars>>

-----------------------------------------------------------------------------
(* POST /generate: a sync handler, run by the server on a pool of threads. *)
(* Each step below is one access to /tmp/qr-bill.svg or /tmp/qr-bill.pdf.  *)

Requests == {1, 2}

API_KEY == "configured-key"

\* 0: pass, else the HTTP status raised
require_api_key(x_api_key) ==
    IF API_KEY = "" THEN 500
    ELSE IF x_api_key = "" \/ x_api_key # API_KEY THEN 401
    ELSE 0

Payloads ==
    { [x_api_key |-> k, company_code |-> <<"0","9","6","0">>, invoice_no |-> i,
       year |-> 2026, mt_prefix |-> MT00, client_code |-> KJ00, info |-> l]
        : k \in {"", API_KEY},
          i \in { <<"1","9","2","9">>, <<"1","9","3","0">>, <<"x">> },
          l \in { << InfoCompany, <<>>, <<>> >>, << InfoLine, <<>>, <<>> >>,
                  << <<>>, <<>>, <<>> >> } }

\* the layout of the slip the generator draws
SlipLayout == [anchor |-> "both", payer |-> "block", monnaie |-> "far", oneGroup |-> TRUE]

InitGenerate ==
    /\ payload \in [Requests -> Payloads]
    /\ pc = [r \in Requests |-> "auth"]
    /\ reqRef = [r \in Requests |-> <<>>]
    /\ tree = [r \in Requests |-> <<>>]
    /\ drawing = [r \in Requests |-> <<>>]
    /\ response = [r \in Requests |-> <<>>]
    /\ svg = <<>>
    /\ pdf = <<>>

\* line 296
Authenticate(r) ==
    /\ pc[r] = "auth"
    /\ pc' = [pc EXCEPT ![r] =
                IF require_api_key(payload[r].x_api_key) = 0 THEN "reference" ELSE "http_error"]
    /\ UNCHANGED <<payload, reqRef, tree, drawing, response, fileVars, callVars, refVars>>

\* lines 298-308
MakeReference(r) ==
    /\ pc[r] = "reference"
    /\ LET b == build_kj_base(payload[r].company_code, payload[r].invoice_no,
                              payload[r].year, payload[r].mt_prefix, payload[r].client_code)
           ref == IF b.ok THEN rf_from_base(b.val) ELSE Raise
       IN  /\ reqRef' = [reqRef EXCEPT ![r] = ref.val]
           /\ pc' = [pc EXCEPT ![r] = IF ref.ok THEN "as_svg" ELSE "http_error"]
    /\ UNCHANGED <<payload, tree, drawing, response, fileVars, callVars, refVars>>

\* line 340: bill.as_svg(str(svg_path), full_page=True)
WriteSvg(r) ==
    /\ pc[r] = "as_svg"
    /\ svg' = as_svg(prettify_groups4(reqRef[r]), SlipLayout)
    /\ pc' = [pc EXCEPT ![r] = "parse"]
    /\ UNCHANGED <<payload, reqRef, tree, drawing, response, pdf, callVars, refVars>>

\* lines 343-348, 99-105: nothing to print returns before ET.parse
ParseSvg(r) ==
    /\ pc[r] = "parse"
    /\ IF NothingToPrint(payload[r].info)
       THEN /\ pc' = [pc EXCEPT ![r] = "svg2rlg"]
            /\ tree' = tree
       ELSE /\ pc' = [pc EXCEPT ![r] = "inject"]
            /\ tree' = [tree EXCEPT ![r] = svg]
    /\ UNCHANGED <<payload, reqRef, drawing, response, fileVars, callVars, refVars>>

\* lines 107-229: the injection on the parsed tree, then tree.write
InjectAndWrite(r) ==
    /\ pc[r] = "inject"
    /\ LET res == inject_info_both_sides(tree[r], prettify_groups4(reqRef[r]),
                                         payload[r].info, r)
       IN  /\ svg' = (IF res.wrote THEN res.doc ELSE svg)
           /\ tree' = [tree EXCEPT ![r] = res.doc]
    /\ pc' = [pc EXCEPT ![r] = "svg2rlg"]
    /\ UNCHANGED <<payload, reqRef, drawing, response, pdf, callVars, refVars>>

\* line 350
Svg2rlg(r) ==
    /\ pc[r] = "svg2rlg"
    /\ drawing' = [drawing EXCEPT ![r] = svg]
    /\ pc' = [pc EXCEPT ![r] = "draw"]
    /\ UNCHANGED <<payload, reqRef, tree, response, fileVars, callVars, refVars>>

\* line 351
DrawToFile(r) ==
    /\ pc[r] = "draw"
    /\ pdf' = drawing[r]
    /\ pc' = [pc EXCEPT ![r] = "read"]
    /\ UNCHANGED <<payload, reqRef, tree, drawing, response, svg, callVars, refVars>>

\* lines 353-363
ReadPdf(r) ==
    /\ pc[r] = "read"
    /\ response' = [response EXCEPT ![r] = pdf]
    /\ pc' = [pc EXCEPT ![r] = "done"]
    /\ UNCHANGED <<payload, reqRef, tree, drawing, fileVars, callVars, refVars>>

-----------------------------------------------------------------------------
(* Specifications *)

IdleRef ==
    /\ rstage = "idle"
    /\ ident = NoIdentifier
    /\ base = Raise
    /\ rf = Raise
    /\ printed = <<>>

IdleCalls ==
    /\ ncalls = 0
    /\ prev = <<>>
    /\ prevprev = <<>>
    /\ lastLines = <<>>
    /\ prevLines = <<>>
    /\ lastWrote = FALSE

IdleGen ==
    /\ pc = [r \in Requests |-> "idle"]
    /\ payload = <<>>
    /\ reqRef = <<>>
    /\ tree = <<>>
    /\ drawing = <<>>
    /\ response = <<>>

\* the pure reference functions on bounded inputs
InitReference == InitRef /\ svg = <<>> /\ pdf = <<>> /\ IdleCalls /\ IdleGen
NextReference == BuildBase \/ ComputeRef \/ Prettify
SpecReference == InitReference /\ [][NextReference]_vars

\* repeated annotation of one generated slip
InitAnnotate == InitInject /\ IdleRef /\ IdleGen
NextAnnotate == Inject
SpecAnnotate == InitAnnotate /\ [][NextAnnotate]_vars

\* two concurrent /generate requests
Init == InitGenerate /\ IdleRef /\ IdleCalls
Next ==
    \E r \in Requests :
        \/ Authenticate(r)
        \/ MakeReference(r)
        \/ WriteSvg(r)
        \/ ParseSvg(r)
        \/ InjectAndWrite(r)
        \/ Svg2rlg(r)
        \/ DrawToFile(r)
        \/ ReadPdf(r)
Spec == Init /\ [][Next]_vars

-----------------------------------------------------------------------------
(* Claims about the reference functions (SpecReference) *)

RemoveSpaces(s) == SelectSeq(s, NotSpace)

\* 4-digit store code, 1 to 5 invoice digits, default tags, year in 0..9999
ValidIdentifier ==
    /\ ident.mode = "ident"
    /\ Len(StripNonDigits(ident.company_code)) = 4
    /\ Len(StripNonDigits(ident.invoice_no)) \in 1..5
    /\ ident.mt_prefix = MT00
    /\ ident.client_code = KJ00
    /\ ident.year.given => ident.year.v \in 0..9999

\* ^RF\d{2}[A-Z0-9]{1,21}$
IsStructuredReference(r) ==
    /\ Len(r) \in 5..25
    /\ r[1] = "R"
    /\ r[2] = "F"
    /\ IsAsciiDigit(r[3])
    /\ IsAsciiDigit(r[4])
    /\ \A i \in 5..Len(r) : IsAsciiDigit(r[i]) \/ IsUpper(r[i])

\* C1: for a valid identifier, build_kj_base then rf_from_base return without
\* error, and the result is "RF", two decimal check digits, then the base
\* (1 to 21 characters of [A-Z0-9]).
C1_ReferenceWellFormed ==
    ValidIdentifier =>
        /\ rstage # "error"
        /\ rstage \in {"based", "reffed", "printed"} => base.ok
        /\ rstage \in {"reffed", "printed"} =>
              /\ rf.ok
              /\ IsStructuredReference(rf.val)
              /\ SubSeq(rf.val, 5, Len(rf.val)) = base.val

\* a valid identifier written with a separator and a 5-digit invoice number
\* (a 21-character base) has gone through both functions
C1_Witness ==
    /\ rstage = "reffed"
    /\ ValidIdentifier
    /\ ident.company_code # StripNonDigits(ident.company_code)
    /\ Len(rf.val) = 25

\* the value of one character in the mod-97 check: 0..9, A = 10 ... Z = 35
CharValue(ch) ==
    IF IsAsciiDigit(ch) THEN IndexOf(DigitChars, ch) - 1 ELSE IndexOf(UpperChars, ch) + 9

\* the remainder mod 97 of the number the characters spell, a letter being
\* its two decimal digits
RECURSIVE Rem97(_, _)
Rem97(r, s) ==
    IF s = <<>> THEN r
    ELSE LET v == CharValue(Head(s))
         IN  Rem97(IF v < 10 THEN (r * 10 + v) % 97
                   ELSE (r * 100 + v) % 97,
                   Tail(s))

\* base + "RF" + check digits of a reference "RF" + check + base
Rearranged(r) == SubSeq(r, 5, Len(r)) \o SubSeq(r, 1, 4)

\* C2: every reference rf_from_base returns passes the self-check: the
\* mod-97 remainder of base + "RF" + check digits is 1.
C2_SelfCheckIsOne == rf.ok => Rem97(0, Rearranged(rf.val)) = 1

\* a reference for a raw 21-character base holding letters
C2_Witness ==
    /\ rf.ok
    /\ ident.mode = "raw"
    /\ Len(rf.val) = 25
    /\ IsUpper(rf.val[25])

\* C3: the printed form is groups of exactly 4 characters separated by single
\* spaces, only the last group possibly shorter, and removing the spaces gives
\* the reference back.
C3_GroupedRoundTrip ==
    rstage = "printed" =>
        /\ \A i \in 1..Len(printed) : (printed[i] = " ") <=> (i % 5 = 0)
        /\ printed[Len(printed)] # " "
        /\ RemoveSpaces(printed) = rf.val

\* a printed reference whose last group is short
C3_Witness ==
    /\ rstage = "printed"
    /\ Len(rf.val) > 8
    /\ Len(rf.val) % 4 # 0

-----------------------------------------------------------------------------
(* Claims about the annotation (SpecAnnotate) *)

\* the sides a call on document t annotates
SidesIn(t) == sides_of(find_refs(t, PrintedRef))

\* the injected nodes of t, without the call that injected them
InjectedAt(t) ==
    UNION { { [p |-> p, text |-> t[p][i].text, x |-> t[p][i].x, y |-> t[p][i].y,
               bold |-> t[p][i].bold] : i \in {j \in 1..Len(t[p]) : t[p][j].by # 0} }
            : p \in Parents }

\* injected header nodes and content nodes at a side's column
HeaderCount(t, sd) ==
    Cardinality({i \in 1..Len(t[sd.ref.p]) :
        LET n == t[sd.ref.p][i]
        IN  n.by # 0 /\ n.bold /\ n.text = HeaderText /\ InWindow(n, sd.ref.x)})
ContentCount(t, sd) ==
    Cardinality({i \in 1..Len(t[sd.ref.p]) :
        LET n == t[sd.ref.p][i]
        IN  n.by # 0 /\ ~n.bold /\ InWindow(n, sd.ref.x)})

\* C4: a second call with the same lines leaves one header and at most 3
\* content nodes per side, where the first call put them.
C4_SecondCallAddsNothing ==
    (ncalls = 2 /\ lastWrote /\ lastLines = prevLines) =>
        /\ InjectedAt(svg) = InjectedAt(prev)
        /\ \A k \in 1..Len(SidesIn(prevprev)) :
              /\ HeaderCount(svg, SidesIn(prevprev)[k]) = 1
              /\ ContentCount(svg, SidesIn(prevprev)[k]) <= 3

\* C5: where a "Monnaie" label lies in a side's window, every node the call
\* emitted on that side is above the label's y minus the margin 6.
C5_BlockAboveMonnaie ==
    (ncalls >= 1 /\ lastWrote) =>
        \A k \in 1..Len(SidesIn(prev)) :
            LET sd == SidesIn(prev)[k]
                kids == svg[sd.ref.p]
            IN  \A i, j \in 1..Len(kids) :
                    ( /\ IsTextNode(kids[i])
                      /\ kids[i].by = 0
                      /\ node_text(kids[i]) = MonnaieLabel
                      /\ InWindow(kids[i], sd.ref.x)
                      /\ kids[j].by = ncalls
                      /\ InWindow(kids[j], sd.ref.x) )
                    => kids[j].y < kids[i].y - 6

\* C6: after a call that annotated, every injected node comes from that call,
\* and each side holds at most one header and at most 3 content nodes.
C6_OnlyLatestBlock ==
    (ncalls >= 1 /\ lastWrote) =>
        /\ \A p \in Parents : \A i \in 1..Len(svg[p]) : svg[p][i].by \in {0, ncalls}
        /\ \A k \in 1..Len(SidesIn(prev)) :
              /\ HeaderCount(svg, SidesIn(prev)[k]) <= 1
              /\ ContentCount(svg, SidesIn(prev)[k]) <= 3

\* the payer's address lines of a side: the generator's text under
\* "Payable par" and above "Monnaie", inside the window
DebtorLines(t, sd) ==
    LET kids == t[sd.ref.p]
        y_label == FirstLabelY(kids, PayableParLabel, sd.ref.x)
        y_monnaie == FirstLabelY(kids, MonnaieLabel, sd.ref.x)
    IN  {i \in 1..Len(kids) :
            /\ y_label.some
            /\ y_monnaie.some
            /\ IsTextNode(kids[i])
            /\ kids[i].text # <<>>
            /\ kids[i].text \notin EXCLUDE
            /\ InWindow(kids[i], sd.ref.x)
            /\ y_label.v < kids[i].y
            /\ kids[i].y < y_monnaie.v}

\* two printed references at distinct x, each side with "Payable par", address
\* lines below it and "Monnaie" further below
PayerAndMonnaieOnBothSides(t) ==
    /\ Len(ScanFrom(1, t, PrintedRef, 0)) = 2
    /\ Len(SidesIn(t)) = 2
    /\ \A k \in 1..2 : DebtorLines(t, SidesIn(t)[k]) # {}

\* C7: in that layout both sides get the header and the content nodes, all
\* strictly below the payer's last address line and strictly above "Monnaie".
C7_BlockBetweenPayerAndMonnaie ==
    (ncalls = 1 /\ ~NothingToPrint(lastLines) /\ PayerAndMonnaieOnBothSides(prev)) =>
        \A k \in 1..2 :
            LET sd == SidesIn(prev)[k]
                kids == svg[sd.ref.p]
                y_monnaie == FirstLabelY(prev[sd.ref.p], MonnaieLabel, sd.ref.x).v
            IN  /\ HeaderCount(svg, sd) = 1
                /\ ContentCount(svg, sd) = n_lines(lastLines) - 1
                /\ \A j \in 1..Len(kids) :
                      (kids[j].by # 0 /\ InWindow(kids[j], sd.ref.x)) =>
                          /\ kids[j].y < y_monnaie
                          /\ \A i \in DebtorLines(prev, sd) : prev[sd.ref.p][i].y < kids[j].y

\* no text node equal to the printed reference or to "Référence"
NoAnchor(t) ==
    \A p \in Parents : \A i \in 1..Len(t[p]) :
        ~(IsTextNode(t[p][i]) /\ node_text(t[p][i]) \in {PrintedRef, ReferenceLabel})

\* C8: without an anchor the call returns and the stored document is neither
\* changed nor rewritten.
C8_NoAnchorNoChange ==
    (ncalls >= 1 /\ NoAnchor(prev)) => (svg = prev /\ ~lastWrote)

\* a call with something to print on a slip that has no anchor
C8_Witness ==
    /\ ncalls >= 1
    /\ NoAnchor(prev)
    /\ ~NothingToPrint(lastLines)
    /\ \E i \in 1..Len(prev[1]) : prev[1][i].text = PayableParLabel

\* C9: every node the generator placed is still there after a call, with the
\* same text and coordinates.
C9_GeneratorNodesKept ==
    ncalls >= 1 =>
        \A p \in Parents : \A i \in 1..Len(prev[p]) :
            prev[p][i].by = 0 => \E j \in 1..Len(svg[p]) : svg[p][j] = prev[p][i]

-----------------------------------------------------------------------------
(* Claim about concurrent requests (Spec) *)

\* C10: the PDF a request returns is its own document: it shows the request's
\* reference, holds the request's lines and nothing another request injected.
C10_ResponseIsOwnDocument ==
    \A r \in Requests :
        pc[r] = "done" =>
            LET d == response[r]
            IN  /\ \E p \in Parents : \E i \in 1..Len(d[p]) :
                      d[p][i].by = 0 /\ d[p][i].text = prettify_groups4(reqRef[r])
                /\ \A p \in Parents : \A i \in 1..Len(d[p]) : d[p][i].by \in {0, r}
                /\ ~NothingToPrint(payload[r].info) =>
                      \E p \in Parents : \E i \in 1..Len(d[p]) :
                          d[p][i].by = r /\ d[p][i].text \in Range(payload[r].info)

=============================================================================
